---- MODULE Spec2Model ----
(***************************************************************************)
(* Model of the Flask item store (src/app.py): the module-level list       *)
(* `items`, the marshmallow ItemSchema, and the four handlers of the       *)
(* Item resource (get, post, put, delete).                                 *)
(*                                                                         *)
(* Spec      : requests are handled one at a time (serial handling).       *)
(* ConcSpec  : two request threads interleave at handler-step granularity. *)
(*                                                                         *)
(* URL tokens and numeric text are sequences of one-character strings, so  *)
(* that int() and float() are modelled by what they do; names are strings. *)
(***************************************************************************)
EXTENDS Integers, Sequences, FiniteSets, TLC

VARIABLES
  items,           \* the module-level list
  request,         \* serial: the request served last
  response,        \* serial: the answer to it
  before,          \* serial: the list as it was when that request arrived
  assigned,        \* serial: the largest id a create has assigned so far
  assignedBefore,  \* serial: the same, when the last request arrived
  pc,              \* threads: the handler line each thread is at
  target,          \* threads: int(item_id) of the delete in progress
  data,            \* threads: the loaded body of the create in progress
  item_id,         \* threads: the id the create in progress has computed
  kept,            \* threads: the list the delete's comprehension has built
  cresp,           \* threads: the answer to each thread's last request
  appendedSince,   \* threads: the items appended since the comprehension ran
  lost,            \* threads: ids answered 201 and dropped by a rebinding
  budget           \* threads: the requests each thread has still to send

vars == <<items, request, response, before, assigned, assignedBefore,
          pc, target, data, item_id, kept, cresp, appendedSince, lost, budget>>

serialVars == <<request, response, before, assigned, assignedBefore>>
threadVars ==
  <<pc, target, data, item_id, kept, cresp, appendedSince, lost, budget>>

\* Largest id a create may assign in the model (cap on the id counter).
MaxId == 3

\* Requests each thread sends in the interleaved model.
MaxRequests == 2

-----------------------------------------------------------------------------
(* Text helpers *)

DigitChars == <<"0","1","2","3","4","5","6","7","8","9">>
Digits == {DigitChars[i] : i \in 1..10}
DigitVal(c) == (CHOOSE i \in 1..10 : DigitChars[i] = c) - 1

RECURSIVE LStrip(_)
LStrip(cs) == IF cs # <<>> /\ Head(cs) = " " THEN LStrip(Tail(cs)) ELSE cs

RECURSIVE RStrip(_)
RStrip(cs) ==
  IF cs # <<>> /\ cs[Len(cs)] = " " THEN RStrip(SubSeq(cs, 1, Len(cs) - 1)) ELSE cs

RECURSIVE DigitsValue(_)
DigitsValue(cs) ==
  IF cs = <<>> THEN 0
  ELSE DigitsValue(SubSeq(cs, 1, Len(cs) - 1)) * 10 + DigitVal(cs[Len(cs)])

\* Python int(str): surrounding whitespace stripped, one optional sign, then
\* one or more decimal digits; otherwise ValueError (ok = FALSE). Underscores
\* between digits and non-ASCII digits, which int() also takes, are not among
\* the texts sent here.
ParseInt(cs) ==
  LET s == RStrip(LStrip(cs))
      signed == s # <<>> /\ Head(s) \in {"+", "-"}
      body == IF signed THEN Tail(s) ELSE s
      mag == DigitsValue(body)
  IN IF body # <<>> /\ \A i \in 1..Len(body) : body[i] \in Digits
       THEN [ok |-> TRUE, val |-> IF signed /\ Head(s) = "-" THEN 0 - mag ELSE mag]
       ELSE [ok |-> FALSE, val |-> 0]

\* str(n) for n >= 0: the decimal rendering a client puts in /items/<id>.
RECURSIVE IntToStr(_)
IntToStr(n) ==
  IF n < 10 THEN <<DigitChars[n + 1]>>
  ELSE IntToStr(n \div 10) \o <<DigitChars[(n % 10) + 1]>>

-----------------------------------------------------------------------------
(* JSON values of a request body *)

\* t: the JSON type ("missing" when the key is absent); n: the number;
\* s: the string; cs: the characters of a string sent where a number is due.
Missing == [t |-> "missing", n |-> 0, s |-> "", cs |-> <<>>]
Num(k) == [t |-> "num", n |-> k, s |-> "", cs |-> <<>>]
Str(s) == [t |-> "str", n |-> 0, s |-> s, cs |-> <<>>]
NumStr(cs) == [t |-> "str", n |-> 0, s |-> "", cs |-> cs]

Body(name, price, id) == [name |-> name, price |-> price, id |-> id]
NoBody == Body(Missing, Missing, Missing)

\* The request bodies the model sends.
Payloads ==
  { Body(Str("Monitor"), Num(300), Missing),
    Body(Str(""), NumStr(<<"3","0","0">>), Missing),
    Body(Missing, Num(300), Missing),
    Body(Str("Monitor"), Missing, Missing),
    Body(Str("Monitor"), NumStr(<<"a","b","c">>), Missing),
    Body(Num(7), Num(300), Missing),
    Body(Str("Monitor"), Num(300), Num(2)) }

\* The <string:item_id> tokens the model sends (the route never passes an
\* empty token; None, the token of /items, is modelled as <<>>).
None == <<>>
Tokens ==
  { IntToStr(k) : k \in 0..MaxId } \cup { <<"+","1">>, <<"a","b","c">> }

-----------------------------------------------------------------------------
(* ItemSchema *)

\* fields.Str(required=True): present, not null, a string. Any string is
\* accepted, the empty one included.
NameOk(v) == v.t = "str"

\* float(str) on the whole-number texts the model sends: the same grammar
\* as int(str).
ParseFloat(cs) == ParseInt(cs)

\* fields.Float(required=True): present, not null, a number or a string that
\* float() parses.
PriceOk(v) ==
  \/ v.t = "num"
  \/ v.t = "str" /\ ParseFloat(v.cs).ok

PriceOf(v) == IF v.t = "num" THEN v.n ELSE ParseFloat(v.cs).val

\* Faulty variant of item_schema_load: unknown fields are included, not rejected.
item_schema_load_include(body) ==
  IF NameOk(body.name) /\ PriceOk(body.price)
    THEN [ok |-> TRUE,
          data |-> IF body.id.t = "num"
                     THEN [name |-> body.name.s, price |-> PriceOf(body.price),
                           id |-> body.id.n]
                     ELSE [name |-> body.name.s, price |-> PriceOf(body.price)]]
    ELSE [ok |-> FALSE, data |-> [name |-> "", price |-> 0]]

\* Faulty variant of item_schema_load: the price is not type-checked.
item_schema_load_anyprice(body) ==
  IF NameOk(body.name) /\ body.id.t = "missing"
    THEN [ok |-> TRUE,
          data |-> [name |-> body.name.s,
                    price |-> IF PriceOk(body.price) THEN PriceOf(body.price) ELSE 0]]
    ELSE [ok |-> FALSE, data |-> [name |-> "", price |-> 0]]

\* Faulty variant of item_schema_load: name is not required.
item_schema_load_optional(body) ==
  IF (NameOk(body.name) \/ body.name.t = "missing") /\ PriceOk(body.price)
       /\ body.id.t = "missing"
    THEN [ok |-> TRUE,
          data |-> IF body.name.t = "missing"
                     THEN [price |-> PriceOf(body.price)]
                     ELSE [name |-> body.name.s, price |-> PriceOf(body.price)]]
    ELSE [ok |-> FALSE, data |-> [name |-> "", price |-> 0]]

\* item_schema.load(request.get_json()): ok = FALSE stands for ValidationError.
\* A field the schema does not declare (here "id") is a validation error.
item_schema_load(body) ==
  IF NameOk(body.name) /\ PriceOk(body.price) /\ body.id.t = "missing"
    THEN [ok |-> TRUE,
          data |-> [name |-> body.name.s, price |-> PriceOf(body.price)]]
    ELSE [ok |-> FALSE, data |-> [name |-> "", price |-> 0]]

-----------------------------------------------------------------------------
(* The store *)

SeedItems ==
  << [id |-> 1, name |-> "Laptop", price |-> 1500],
     [id |-> 2, name |-> "Phone", price |-> 800],
     [id |-> 3, name |-> "Tablet", price |-> 500] >>

NoItem == [id |-> 0, name |-> "", price |-> 0]

Ids(its) == {its[i].id : i \in 1..Len(its)}

MaxOf(S) == CHOOSE m \in S : \A x \in S : x <= m

\* next((item for item in items if item["id"] == int(item_id)), None)
\* int(item_id) is evaluated once per visited item, so an empty list never
\* evaluates it. Result: "raise" (ValueError), or the index found (0 = None).
Lookup(its, tok) ==
  IF its = <<>> THEN [raise |-> FALSE, idx |-> 0]
  ELSE IF ~ParseInt(tok).ok THEN [raise |-> TRUE, idx |-> 0]
  ELSE LET k == ParseInt(tok).val
           hits == {i \in 1..Len(its) : its[i].id = k}
       IN [raise |-> FALSE,
           idx |-> IF hits = {} THEN 0 ELSE CHOOSE i \in hits : \A j \in hits : i <= j]

\* Faulty variant of NextItemId: the list length plus one.
NextItemId_len(its) == Len(its) + 1

\* Auto-increment ID logic (post).
NextItemId(its) == IF its # <<>> THEN MaxOf(Ids(its)) + 1 ELSE 1

\* existing_item.update(data) (line 104) and data["id"] = item_id (line 81):
\* the keys of d overwrite those of item.
DictUpdate(item, d) ==
  [f \in (DOMAIN item) \cup (DOMAIN d) |-> IF f \in DOMAIN d THEN d[f] ELSE item[f]]

\* Faulty variant of Without: the first item is dropped, whatever its id.
Without_first(its, k) == Tail(its)

\* [item for item in items if item["id"] != int(item_id)]
Without(its, k) == SelectSeq(its, LAMBDA it : it.id # k)

Resp(status, message, item, list) ==
  [status |-> status, message |-> message, item |-> item, list |-> list]

NoResp == Resp(0, "", NoItem, <<>>)
NotFound == Resp(404, "Item not found", NoItem, <<>>)
ServerError == Resp(500, "Internal Server Error", NoItem, <<>>)
Invalid == Resp(400, "Invalid input", NoItem, <<>>)

Req(op, tok, body) == [op |-> op, item_id |-> tok, body |-> body]
NoReq == Req("none", None, NoBody)

\* What a handler does: its answer and the list it leaves.
Done(resp, its) == [resp |-> resp, items |-> its]

-----------------------------------------------------------------------------
(* The handlers of the Item resource, as functions of the list *)

Item_get(its, tok) ==
  IF tok # None
    THEN LET r == Lookup(its, tok)
         IN IF r.raise THEN Done(ServerError, its)
            ELSE IF r.idx = 0 THEN Done(NotFound, its)
            ELSE Done(Resp(200, "", its[r.idx], <<>>), its)
    ELSE Done(Resp(200, "", NoItem, its), its)

\* Faulty variant of Item_post: the new record is put first, not last.
Item_post_prepend(its, body) ==
  LET v == item_schema_load(body)
      new == DictUpdate(v.data, [id |-> NextItemId(its)])
  IN IF ~v.ok THEN Done(Invalid, its)
     ELSE Done(Resp(201, "Item created", new, <<>>), <<new>> \o its)

Item_post(its, body) ==
  LET v == item_schema_load(body)
      new == DictUpdate(v.data, [id |-> NextItemId(its)])
  IN IF ~v.ok THEN Done(Invalid, its)
     ELSE Done(Resp(201, "Item created", new, <<>>), Append(its, new))

\* Faulty variant of Item_put: the body is validated before the id is resolved.
Item_put_validate_first(its, tok, body) ==
  LET r == Lookup(its, tok)
      v == item_schema_load(body)
      new == [its EXCEPT ![r.idx] = DictUpdate(@, v.data)]
  IN IF ~v.ok THEN Done(Invalid, its)
     ELSE IF r.raise THEN Done(ServerError, its)
     ELSE IF r.idx = 0 THEN Done(NotFound, its)
     ELSE Done(Resp(200, "Item updated", new[r.idx], <<>>), new)

Item_put(its, tok, body) ==
  LET r == Lookup(its, tok)
      v == item_schema_load(body)
      new == [its EXCEPT ![r.idx] = DictUpdate(@, v.data)]
  IN IF r.raise THEN Done(ServerError, its)
     ELSE IF r.idx = 0 THEN Done(NotFound, its)
     ELSE IF ~v.ok THEN Done(Invalid, its)
     ELSE Done(Resp(200, "Item updated", new[r.idx], <<>>), new)

Item_delete(its, tok) ==
  LET r == Lookup(its, tok)
  IN IF r.raise THEN Done(ServerError, its)
     ELSE IF r.idx = 0 THEN Done(NotFound, its)
     ELSE Done(Resp(200, "Item deleted", NoItem, <<>>), Without(its, ParseInt(tok).val))

-----------------------------------------------------------------------------
(* Serial request handling: one request is served from start to end *)

Threads == {"t1", "t2"}

Init ==
  /\ items = SeedItems
  /\ request = NoReq
  /\ response = NoResp
  /\ before = SeedItems
  /\ assigned = 0
  /\ assignedBefore = 0
  /\ pc = [t \in Threads |-> "idle"]
  /\ target = [t \in Threads |-> 0]
  /\ data = [t \in Threads |-> NoItem]
  /\ item_id = [t \in Threads |-> 0]
  /\ kept = [t \in Threads |-> <<>>]
  /\ cresp = [t \in Threads |-> NoResp]
  /\ appendedSince = [t \in Threads |-> {}]
  /\ lost = {}
  /\ budget = [t \in Threads |-> MaxRequests]

Serve(req, done) ==
  /\ request' = req
  /\ response' = done.resp
  /\ items' = done.items
  /\ before' = items
  /\ assignedBefore' = assigned
  /\ assigned' = IF done.resp.status = 201 /\ done.resp.item.id > assigned
                   THEN done.resp.item.id ELSE assigned
  /\ UNCHANGED threadVars

get(tok) == Serve(Req("get", tok, NoBody), Item_get(items, tok))

post(body) ==
  /\ item_schema_load(body).ok => NextItemId(items) <= MaxId
  /\ Serve(Req("post", None, body), Item_post(items, body))

put(tok, body) == Serve(Req("put", tok, body), Item_put(items, tok, body))

delete(tok) == Serve(Req("delete", tok, NoBody), Item_delete(items, tok))

Next ==
  \/ \E tok \in Tokens \cup {None} : get(tok)
  \/ \E body \in Payloads : post(body)
  \/ \E tok \in Tokens, body \in Payloads : put(tok, body)
  \/ \E tok \in Tokens : delete(tok)

Spec == Init /\ [][Next]_vars

-----------------------------------------------------------------------------
(* Interleaved handling: two request threads run post and delete, and the   *)
(* scheduler may switch threads between any two lines of a handler. No      *)
(* handler takes a lock.                                                    *)

\* A thread takes up its next request.
Accept(t) ==
  /\ pc[t] = "idle"
  /\ budget[t] > 0
  /\ budget' = [budget EXCEPT ![t] = @ - 1]

\* A handler returns: its locals are gone, its answer is recorded.
Return(t, resp) ==
  /\ pc' = [pc EXCEPT ![t] = "idle"]
  /\ cresp' = [cresp EXCEPT ![t] = resp]
  /\ target' = [target EXCEPT ![t] = 0]
  /\ data' = [data EXCEPT ![t] = NoItem]
  /\ item_id' = [item_id EXCEPT ![t] = 0]
  /\ kept' = [kept EXCEPT ![t] = <<>>]

\* post, lines 69-72: load the body.
PostLoad(t, body) ==
  /\ Accept(t)
  /\ LET v == item_schema_load(body)
     IN IF ~v.ok
          THEN /\ Return(t, Invalid)
               /\ UNCHANGED <<items, appendedSince, lost>>
          ELSE /\ pc' = [pc EXCEPT ![t] = "post_id"]
               /\ data' = [data EXCEPT ![t] = v.data]
               /\ UNCHANGED <<items, target, item_id, kept, cresp, appendedSince, lost>>
  /\ UNCHANGED serialVars

\* post, lines 75-79: compute the next id from the list as it is now.
PostId(t) ==
  /\ pc[t] = "post_id"
  /\ pc' = [pc EXCEPT ![t] = "post_append"]
  /\ item_id' = [item_id EXCEPT ![t] = NextItemId(items)]
  /\ UNCHANGED <<items, target, data, kept, cresp, appendedSince, lost, budget>>
  /\ UNCHANGED serialVars

\* Faulty variant of PostAppend: the id is computed again when the record is
\* appended, as it would be under a lock held from line 75 to line 82.
PostAppend_locked(t) ==
  /\ pc[t] = "post_append"
  /\ LET new == DictUpdate(data[t], [id |-> NextItemId(items)])
     IN /\ items' = Append(items, new)
        /\ appendedSince' =
             [d \in Threads |->
                IF pc[d] = "del_store" THEN appendedSince[d] \cup {new}
                ELSE appendedSince[d]]
        /\ Return(t, Resp(201, "Item created", new, <<>>))
  /\ UNCHANGED <<lost, budget>>
  /\ UNCHANGED serialVars

\* post, lines 81-83: set the id computed earlier, append, answer 201.
PostAppend(t) ==
  /\ pc[t] = "post_append"
  /\ LET new == DictUpdate(data[t], [id |-> item_id[t]])
     IN /\ items' = Append(items, new)
        /\ appendedSince' =
             [d \in Threads |->
                IF pc[d] = "del_store" THEN appendedSince[d] \cup {new}
                ELSE appendedSince[d]]
        /\ Return(t, Resp(201, "Item created", new, <<>>))
  /\ UNCHANGED <<lost, budget>>
  /\ UNCHANGED serialVars

\* delete, lines 116-118: look the item up.
DeleteFind(t, tok) ==
  /\ Accept(t)
  /\ LET r == Lookup(items, tok)
     IN IF r.raise THEN Return(t, ServerError)
        ELSE IF r.idx = 0 THEN Return(t, NotFound)
        ELSE /\ pc' = [pc EXCEPT ![t] = "delete_filter"]
             /\ target' = [target EXCEPT ![t] = ParseInt(tok).val]
             /\ UNCHANGED <<data, item_id, kept, cresp>>
  /\ UNCHANGED <<items, appendedSince, lost>>
  /\ UNCHANGED serialVars

\* delete, line 119, right-hand side: the comprehension scans the list.
DeleteFilter(t) ==
  /\ pc[t] = "delete_filter"
  /\ pc' = [pc EXCEPT ![t] = "del_store"]
  /\ kept' = [kept EXCEPT ![t] = Without(items, target[t])]
  /\ appendedSince' = [appendedSince EXCEPT ![t] = {}]
  /\ UNCHANGED <<items, target, data, item_id, cresp, lost, budget>>
  /\ UNCHANGED serialVars

\* delete, lines 119-120: rebind the module-level name, answer 200.
DeleteStore(t) ==
  /\ pc[t] = "del_store"
  /\ items' = kept[t]
  /\ lost' = lost \cup {x.id : x \in {y \in appendedSince[t] : y.id \notin Ids(kept[t])}}
  /\ appendedSince' =
       [d \in Threads |->
          IF d = t THEN {} ELSE {x \in appendedSince[d] : x.id \in Ids(kept[t])}]
  /\ Return(t, Resp(200, "Item deleted", NoItem, <<>>))
  /\ UNCHANGED budget
  /\ UNCHANGED serialVars

\* The bodies the threads send: the one of test_create_item, and one
\* without a name.
ConcPayloads ==
  { Body(Str("Monitor"), Num(300), Missing), Body(Missing, Num(300), Missing) }

ConcNext ==
  \/ \E t \in Threads, body \in ConcPayloads : PostLoad(t, body)
  \/ \E t \in Threads : PostId(t)
  \/ \E t \in Threads : PostAppend(t)
  \/ \E t \in Threads, tok \in Tokens : DeleteFind(t, tok)
  \/ \E t \in Threads : DeleteFilter(t)
  \/ \E t \in Threads : DeleteStore(t)

ConcSpec == Init /\ [][ConcNext]_vars

-----------------------------------------------------------------------------
(* Properties of serial handling (checked under Spec) *)

Served(op) == request.op = op
Answered(op, status) == request.op = op /\ response.status = status

\* The token denotes the id of a record of the list.
Resolves(tok, its) == ParseInt(tok).ok /\ ParseInt(tok).val \in Ids(its)

\* The body lacks name or price, or its price is text that is no number.
InvalidBody(b) ==
  \/ b.name.t = "missing"
  \/ b.price.t = "missing"
  \/ b.price.t = "str" /\ ~ParseFloat(b.price.cs).ok

\* The number a valid body's price stands for.
SentPrice(b) == IF b.price.t = "num" THEN b.price.n ELSE ParseFloat(b.price.cs).val

\* C1: a successful create returns an item whose id is one more than the
\* largest id present just before the call (1 if the list was empty) and
\* appends exactly that record to the end of the list.
C1_CreateAssignsMaxPlusOne ==
  Answered("post", 201) =>
    /\ before = <<>> => response.item.id = 1
    /\ before # <<>> =>
         /\ \A i \in 1..Len(before) : before[i].id < response.item.id
         /\ \E i \in 1..Len(before) : before[i].id + 1 = response.item.id
    /\ items = before \o <<response.item>>

\* C1 witness: a create served when the list held the single id 2.
C1_Witness ==
  /\ Answered("post", 201)
  /\ Len(before) = 1 /\ before[1].id = 2
  /\ response.item.id = 3

\* C2: in every state reachable from the seed records by serial requests,
\* valid or not, the ids of the list are pairwise distinct positive integers.
C2_IdsUniqueAndPositive ==
  /\ \A i \in 1..Len(items) : items[i].id \in Nat /\ items[i].id >= 1
  /\ \A i, j \in 1..Len(items) : i # j => items[i].id # items[j].id

\* C2 witness: after a delete and a create, an update has just succeeded.
C2_Witness ==
  /\ Answered("put", 200)
  /\ assigned > 0
  /\ Len(items) = 2

\* C3 (as claimed): get-by-id, update and delete with a token that resolves
\* to no record always answer 404 "Item not found".
C3_UnresolvedIsNotFound ==
  (request.op \in {"get", "put", "delete"} /\ request.item_id # None
     /\ ~Resolves(request.item_id, before))
  => response.status = 404 /\ response.message = "Item not found"

\* C4 (as claimed): every successful create is assigned an id strictly
\* greater than the id of every earlier successful create.
C4_CreateIdsStrictlyIncrease ==
  Answered("post", 201) => response.item.id > assignedBefore

\* C5: after a successful delete of id k, get-by-id k and a second delete of
\* k answer 404, the listing holds no item with id k, and the other items
\* are all still there, unchanged and in the same order.
C5_DeleteRemovesExactlyThatItem ==
  Answered("delete", 200) =>
    LET k == ParseInt(request.item_id).val
    IN /\ response.message = "Item deleted"
       /\ \A tok \in Tokens :
            (ParseInt(tok).ok /\ ParseInt(tok).val = k) =>
              /\ Item_get(items, tok).resp = NotFound
              /\ Item_delete(items, tok).resp = NotFound
       /\ LET listing == Item_get(items, None).resp.list
          IN \A i \in 1..Len(listing) : listing[i].id # k
       /\ \E p \in 1..Len(before) :
            /\ before[p].id = k
            /\ items = SubSeq(before, 1, p - 1) \o SubSeq(before, p + 1, Len(before))

\* C5 witness: the item in the middle of the list has just been deleted.
C5_Witness ==
  /\ Answered("delete", 200)
  /\ Len(before) = 3 /\ before[2].id = ParseInt(request.item_id).val
  /\ Len(items) = 2

\* C6 (as claimed): a create or update whose body lacks name or price, or
\* has a non-numeric price, answers 400 "Invalid input" and leaves the list
\* unchanged.
C6_InvalidBodyIs400 ==
  (request.op \in {"post", "put"} /\ InvalidBody(request.body)) =>
    /\ response.status = 400 /\ response.message = "Invalid input"
    /\ items = before

\* C6 (amended): such a body is answered 400 "Invalid input" by create, and
\* by update when the id resolves to a record; whatever the answer, the list
\* is left unchanged.
C6_InvalidBodyRejected ==
  (request.op \in {"post", "put"} /\ InvalidBody(request.body)) =>
    /\ (Served("post") \/ Resolves(request.item_id, before)) =>
         response.status = 400 /\ response.message = "Invalid input"
    /\ items = before

\* C6 witness: an update of an existing record with a non-numeric price.
C6_Witness ==
  /\ Answered("put", 400)
  /\ Resolves(request.item_id, before)
  /\ request.body.price.t = "str" /\ ~ParseFloat(request.body.price.cs).ok

\* C7: a write is visible to the next request: get-by-id with the id a
\* create returned gives the name and price sent; get-by-id k after a
\* successful update of k gives the new name and price, with id k.
C7_WritesVisibleToNextGet ==
  /\ Answered("post", 201) =>
       LET g == Item_get(items, IntToStr(response.item.id)).resp
       IN /\ g.status = 200
          /\ g.item.id = response.item.id
          /\ g.item.name = request.body.name.s
          /\ g.item.price = SentPrice(request.body)
  /\ Answered("put", 200) =>
       LET g == Item_get(items, request.item_id).resp
       IN /\ g.status = 200
          /\ g.item.id = ParseInt(request.item_id).val
          /\ g.item.name = request.body.name.s
          /\ g.item.price = SentPrice(request.body)
          /\ g.item = response.item

\* C7 witness: an update that changed the name and the price of a seed item.
C7_Witness ==
  /\ Answered("put", 200)
  /\ response.item.id = 1
  /\ before[1].id = 1 /\ before[1].price = 1500
  /\ response.item.price = 300

C9_NamesNonEmpty == \A i \in 1..Len(items) : items[i].name # ""

\* The names a client can have sent as text, and the seed names.
TextNames ==
  {SeedItems[i].name : i \in 1..Len(SeedItems)} \cup
  {b.name.s : b \in {c \in Payloads : c.name.t = "str"}}

\* C9 (amended): every item of the list has a text name, possibly empty:
\* a body whose name is missing or is no string is never stored.
C9_NamesAreText ==
  /\ \A i \in 1..Len(items) :
       "name" \in DOMAIN items[i] /\ items[i].name \in TextNames
  /\ (request.op \in {"post", "put"} /\ request.body.name.t # "str") =>
       /\ response.status \notin {200, 201}
       /\ items = before
       /\ Served("post") => response.status = 400

\* C9 witness: a create with the empty string as name has been stored.
C9_Witness ==
  /\ Answered("post", 201)
  /\ request.body.name = Str("")
  /\ items[Len(items)].name = ""

-----------------------------------------------------------------------------
(* Properties of interleaved handling (checked under ConcSpec) *)

\* Two records of the list carry the id k.
TwoWithId(its, k) ==
  \E i, j \in 1..Len(its) : i # j /\ its[i].id = k /\ its[j].id = k

\* C10: without a lock the store is not safe when requests interleave.
\* A create that computed its id before another create appended the same
\* id still appends it and is answered 201, so the list holds two items
\* with one id; and when a delete rebinds the list, every item that a
\* create appended (and was answered 201 for) after the delete's
\* comprehension scanned the list is absent from the list.
C10_UnlockedHandlersRace ==
  [][\A t \in Threads :
       /\ (pc[t] = "post_append" /\ pc'[t] = "idle" /\ item_id[t] \in Ids(items)) =>
            /\ cresp'[t].status = 201 /\ cresp'[t].item.id = item_id[t]
            /\ TwoWithId(items', item_id[t])
       /\ (pc[t] = "del_store" /\ pc'[t] = "idle") =>
            /\ cresp'[t].status = 200
            /\ \A x \in appendedSince[t] :
                 (x.id # target[t] /\ x.id \notin Ids(kept[t])) =>
                   /\ x.id \in Ids(items)
                   /\ x.id \notin Ids(items')
    ]_vars

\* C10 witness: a create answered 201 has been dropped by a rebinding, and
\* two creates have stored the same id.
C10_Witness ==
  /\ lost # {}
  /\ \E k \in Ids(items) : TwoWithId(items, k)
  /\ \A t \in Threads : pc[t] = "idle" /\ cresp[t].status = 201

====
